---- MODULE Spec2Model ----
(***************************************************************************)
(* A model of cspc_api.py: the CspcApi client of the CSPC appliance's      *)
(* HTTP/XML API.  Python strings are sequences of one-character strings;   *)
(* an XML text (a template file, a request payload, a response body) is   *)
(* the sequence of its markup events (start tag, character data, end       *)
(* tag) in document order; an ElementTree element is a record of its tag,  *)
(* attributes, text and children.                                          *)
(***************************************************************************)
EXTENDS Integers, Sequences, FiniteSets, TLC

VARIABLES
    self,   \* the CspcApi object the operations are called on
    other,  \* a second CspcApi object, to compare with
    ctor,   \* the constructor arguments self and other were made from
    files,  \* the xml_requests directory: file name -> text
    last,   \* the last call: its arguments, the requests it sent, how it ended
    reused  \* the last call loaded the template file that the call before it
            \* had loaded, added elements to and submitted

vars == <<self, other, ctor, files, last, reused>>

(***************************************************************************)
(* Bounds of the model.                                                    *)
(***************************************************************************)
MaxEntries == 2

(***************************************************************************)
(* Python values: str, None, bool.                                         *)
(***************************************************************************)
PyStr(s) == [t |-> "str", v |-> s]

PyNone == [t |-> "None", v |-> <<>>]

\* str(x) for a str or None
str(x) == IF x.t = "None" THEN <<"N", "o", "n", "e">> ELSE x.v

\* repr of a bool inside an f-string
BoolStr(b) == IF b THEN <<"T", "r", "u", "e">> ELSE <<"F", "a", "l", "s", "e">>

\* `a in b` for two str: a is a contiguous part of b
IsIn(a, b) == \E i \in 0..(Len(b) - Len(a)) : SubSeq(b, i + 1, i + Len(a)) = a

UpperChars == <<"D", "R", "U", "S">>

LowerChars == <<"d", "r", "u", "s">>

LowerChar(c) ==
    IF \E i \in 1..Len(UpperChars) : UpperChars[i] = c
    THEN LowerChars[CHOOSE i \in 1..Len(UpperChars) : UpperChars[i] = c]
    ELSE c

\* str.lower()
lower(s) == [i \in 1..Len(s) |-> LowerChar(s[i])]

(***************************************************************************)
(* XML.  NS is the namespace registered with the empty prefix.             *)
(***************************************************************************)
NS == "http://www.parinetworks.com/api/schemas/1.1"

NoDecl == "(no xmlns)"

Open(name, xmlns, attrib) ==
    [k |-> "open", name |-> name, xmlns |-> xmlns, attrib |-> attrib, text |-> <<>>]

Text(s) == [k |-> "text", name |-> "", xmlns |-> NoDecl, attrib |-> <<>>, text |-> s]

Close(name) == [k |-> "close", name |-> name, xmlns |-> NoDecl, attrib |-> <<>>, text |-> <<>>]

Tag(ns, name) == [ns |-> ns, name |-> name]

\* ElementTree.Element(tag, **attrib): no namespace, no text, no children
Element(tag, attrib) ==
    [tag |-> Tag("", tag), attrib |-> attrib, text |-> PyNone, children |-> <<>>]

NoElem == [tag |-> Tag("", ""), attrib |-> <<>>, text |-> PyNone, children |-> <<>>]

ParseError == [ok |-> FALSE, elem |-> NoElem]

(***************************************************************************)
(* The XML texts of the model: the template directories the library may    *)
(* find and the bodies the appliance may answer with.                      *)
(***************************************************************************)
Leaf(name, s) == <<Open(name, NoDecl, <<>>), Text(s), Close(name)>>

El(name, xmlns, attrib, inner) == <<Open(name, xmlns, attrib)>> \o inner \o <<Close(name)>>

TemplateNames ==
    {"get_details_of_all_devices.xml", "add_multiple_device_credentials.xml",
     "add_multiple_devices.xml", "delete_multiple_devices.xml",
     "discover_multiple_devices.xml"}

File(text) == [exists |-> TRUE, text |-> text]

NoFile == [exists |-> FALSE, text |-> <<>>]

OpId == <<[key |-> "operationId", value |-> <<"1">>]>>

GetTemplate ==
    El("Request", NS, <<>>, El("Manage", NoDecl, <<>>,
        El("Get", NoDecl, OpId, El("DeviceList", NoDecl, <<[key |-> "all", value |-> <<"t", "r", "u", "e">>]>>, <<>>))))

\* a template of the shape Request/Manage/<verb>/<list>, the list holding `inner`
ManageTemplate(xmlns, verb, list, inner) ==
    El("Request", xmlns, <<>>, El("Manage", NoDecl, <<>>,
        El(verb, NoDecl, OpId, El(list, NoDecl, <<>>, inner))))

\* a template of the shape Request/Job/Schedule/DiscoveryJob/.../IPAddressList
DiscoverTemplate(job, list, inner) ==
    El("Request", NS, <<>>, El("Job", NoDecl, <<>>,
        El("Schedule", NoDecl, OpId,
            El("JobSchedule", NoDecl, <<[key |-> "runnow", value |-> <<"t", "r", "u", "e">>]>>, <<>>)
            \o El(job, NoDecl, <<[key |-> "identifier", value |-> <<"j", "o", "b", "1">>]>>,
                  El("DiscoveryJobProfile", NoDecl, <<>>,
                     El(list, NoDecl, <<>>, inner))))))

\* the directory as shipped: every list container present and empty
DirEmpty ==
    [n \in TemplateNames |->
        CASE n = "get_details_of_all_devices.xml" -> File(GetTemplate)
          [] n = "add_multiple_device_credentials.xml" ->
                File(ManageTemplate(NS, "Add", "DeviceCredentialList", <<>>))
          [] n = "add_multiple_devices.xml" -> File(ManageTemplate(NS, "Add", "DeviceList", <<>>))
          [] n = "delete_multiple_devices.xml" ->
                File(ManageTemplate(NS, "Delete", "DeviceList", <<>>))
          [] OTHER -> File(DiscoverTemplate("DiscoveryJob", "IPAddressList", <<>>))]

\* templates whose containers already hold a child
DirFilled ==
    [n \in TemplateNames |->
        CASE n = "get_details_of_all_devices.xml" -> File(GetTemplate)
          [] n = "add_multiple_device_credentials.xml" ->
                File(ManageTemplate(NS, "Add", "DeviceCredentialList",
                        El("DeviceCredential", NoDecl,
                           <<[key |-> "identifier", value |-> <<"o", "l", "d">>]>>,
                           Leaf("Protocol", <<"s", "n", "m", "p", "v", "1">>))))
          [] n = "add_multiple_devices.xml" ->
                File(ManageTemplate(NS, "Add", "DeviceList",
                        El("Device", NoDecl, <<>>, Leaf("IPAddress", <<"9", ".", "9">>))))
          [] n = "delete_multiple_devices.xml" ->
                File(ManageTemplate(NS, "Delete", "DeviceList",
                        El("Device", NoDecl, <<>>, Leaf("Id", <<"9">>))))
          [] OTHER -> File(DiscoverTemplate("DiscoveryJob", "IPAddressList",
                                            Leaf("IPAddress", <<"9", ".", "9">>)))]

\* a directory that does not fit the library: a file missing, a text that is
\* no XML, a template without the namespace, containers missing
DirBroken ==
    [n \in TemplateNames |->
        CASE n = "get_details_of_all_devices.xml" -> NoFile
          [] n = "add_multiple_device_credentials.xml" ->
                File(<<Open("Request", NS, <<>>)>>)
          [] n = "add_multiple_devices.xml" ->
                File(ManageTemplate(NoDecl, "Add", "DeviceList", <<>>))
          [] n = "delete_multiple_devices.xml" ->
                File(ManageTemplate(NS, "Delete", "Devices", <<>>))
          [] OTHER -> File(DiscoverTemplate("DiscoveryJob", "IPAddresses", <<>>))]

\* as DirBroken, with other faults
DirBroken2 ==
    [n \in TemplateNames |->
        CASE n = "get_details_of_all_devices.xml" -> File(GetTemplate)
          [] n = "add_multiple_device_credentials.xml" ->
                File(ManageTemplate(NS, "Add", "CredentialList", <<>>))
          [] n = "add_multiple_devices.xml" -> NoFile
          [] n = "delete_multiple_devices.xml" ->
                File(ManageTemplate(NS, "Delete", "DeviceList", <<>>))
          [] OTHER -> File(DiscoverTemplate("Discovery", "IPAddressList", <<>>))]

TemplateDirs == {DirEmpty, DirFilled, DirBroken, DirBroken2}

Dev(fields) == El("Device", NoDecl, <<>>, fields)

Body(devices) == El("Response", NoDecl, <<>>, El("DeviceList", NoDecl, <<>>, devices))

\* two devices, switch1 and router2
BodyHosts ==
    Body(Dev(Leaf("Id", <<"1">>) \o Leaf("HostName", <<"s", "w", "i", "t", "c", "h", "1">>)
             \o Leaf("IPAddress", <<"1", ".", "1">>) \o Leaf("Status", <<"R", "e", "a", "c", "h", "a", "b", "l", "e">>))
         \o Dev(Leaf("Id", <<"2">>) \o Leaf("HostName", <<"r", "o", "u", "t", "e", "r", "2">>)
                \o Leaf("IPAddress", <<"1", ".", "2">>) \o Leaf("Status", <<"U", "n", "r", "e", "a", "c", "h", "a", "b", "l", "e">>)))

\* three devices: Reachable, Unreachable, reachable
BodyStatus ==
    Body(Dev(Leaf("Id", <<"1">>) \o Leaf("HostName", <<"s", "w", "i", "t", "c", "h", "1">>)
             \o Leaf("IPAddress", <<"1", ".", "1">>) \o Leaf("Status", <<"R", "e", "a", "c", "h", "a", "b", "l", "e">>))
         \o Dev(Leaf("Id", <<"2">>) \o Leaf("HostName", <<"r", "o", "u", "t", "e", "r", "2">>)
                \o Leaf("IPAddress", <<"1", ".", "2">>) \o Leaf("Status", <<"U", "n", "r", "e", "a", "c", "h", "a", "b", "l", "e">>))
         \o Dev(Leaf("Id", <<"3">>) \o Leaf("HostName", <<"s", "w", "i", "t", "c", "h", "3">>)
                \o Leaf("IPAddress", <<"1", ".", "3">>) \o Leaf("Status", <<"r", "e", "a", "c", "h", "a", "b", "l", "e">>)))

\* a device without Id and HostName, then a complete one
BodyPartial ==
    Body(Dev(Leaf("IPAddress", <<"1", ".", "1">>) \o Leaf("Status", <<"U", "n", "r", "e", "a", "c", "h", "a", "b", "l", "e">>))
         \o Dev(Leaf("Id", <<"2">>) \o Leaf("HostName", <<"r", "o", "u", "t", "e", "r", "2">>)
                \o Leaf("IPAddress", <<"1", ".", "2">>) \o Leaf("Status", <<"U", "n", "r", "e", "a", "c", "h", "a", "b", "l", "e">>)))

\* a complete device, then one without Status
BodyNoStatus ==
    Body(Dev(Leaf("Id", <<"2">>) \o Leaf("HostName", <<"r", "o", "u", "t", "e", "r", "2">>)
             \o Leaf("IPAddress", <<"1", ".", "2">>) \o Leaf("Status", <<"U", "n", "r", "e", "a", "c", "h", "a", "b", "l", "e">>))
         \o Dev(Leaf("Id", <<"1">>) \o Leaf("HostName", <<"s", "w", "i", "t", "c", "h", "1">>)))

\* a Device in the namespace, a Device with two HostName children and empty
\* elements, and a Device inside it
BodyOdd ==
    Body(El("Device", NS, <<>>, Leaf("HostName", <<"s", "w", "i", "t", "c", "h", "1">>) \o Leaf("Status", <<"U", "n", "r", "e", "a", "c", "h", "a", "b", "l", "e">>))
         \o Dev(Leaf("HostName", <<"r", "o", "u", "t", "e", "r", "2">>) \o Leaf("HostName", <<"s", "w", "i", "t", "c", "h", "1">>)
                \o El("Status", NoDecl, <<>>, <<>>) \o El("Id", NoDecl, <<>>, <<>>)
                \o Dev(Leaf("HostName", <<"s", "w", "i", "t", "c", "h", "3">>) \o Leaf("Status", <<"R", "e", "a", "c", "h", "a", "b", "l", "e">>))))

\* a short answer with one device
BodyOne == El("Response", NoDecl, <<>>, Dev(Leaf("HostName", <<"s", "w", "i", "t", "c", "h", "1">>) \o Leaf("Status", <<"D", "o", "w", "n">>)))

\* a text that is no XML document
BodyNotXml == <<Open("Response", NoDecl, <<>>), Text(<<"d", "e", "n", "i", "e", "d">>)>>

Bodies == {BodyHosts, BodyStatus, BodyPartial, BodyNoStatus, BodyOdd, BodyNotXml}

\* the events as a parser without namespace processing sees them: an xmlns
\* declaration is one more attribute
RawEvents(text) ==
    [i \in 1..Len(text) |->
        IF text[i].k = "open" /\ text[i].xmlns # NoDecl
        THEN [text[i] EXCEPT !.xmlns = NoDecl,
                             !.attrib = <<[key |-> "xmlns", value |-> text[i].xmlns]>> \o @]
        ELSE text[i]]

(***************************************************************************)
(* ElementTree's parser and serializer.                                     *)
(***************************************************************************)
RECURSIVE ParseFrom(_, _, _, _)
\* the parser's walk over the events from the i-th on: `stack` holds the open
\* elements.  An element that holds a text and nothing else is read in one
\* turn, which leaves the same tree as reading its three events in three.
ParseFrom(toks, i, stack, root) ==
    IF i > Len(toks)
    THEN IF stack = <<>> /\ root # NoElem THEN [ok |-> TRUE, elem |-> root] ELSE ParseError
    ELSE LET t == toks[i]
             n == Len(stack)
         IN  CASE t.k = "open" ->
                    IF n = 0 /\ root # NoElem
                    THEN ParseError
                    ELSE LET ns == IF t.xmlns # NoDecl THEN t.xmlns
                                   ELSE IF n = 0 THEN "" ELSE stack[n].tag.ns
                             e == [tag |-> Tag(ns, t.name), attrib |-> t.attrib,
                                   text |-> PyNone, children |-> <<>>]
                         IN  IF /\ n > 0
                                /\ i + 2 <= Len(toks)
                                /\ toks[i + 1].k = "text"
                                /\ toks[i + 2].k = "close"
                                /\ toks[i + 2].name = t.name
                             THEN LET leaf == [e EXCEPT !.text = PyStr(toks[i + 1].text)]
                                      p == [stack[n] EXCEPT !.children = Append(@, leaf)]
                                  IN  ParseFrom(toks, i + 3, [stack EXCEPT ![n] = p], root)
                             ELSE ParseFrom(toks, i + 1, Append(stack, e), root)
               [] t.k = "text" ->
                    IF n = 0
                    THEN ParseError
                    ELSE IF stack[n].children # <<>>
                         THEN ParseFrom(toks, i + 1, stack, root)
                         ELSE LET e == [stack[n] EXCEPT !.text = PyStr(str(
                                            IF @.t = "None" THEN PyStr(<<>>) ELSE @) \o t.text)]
                              IN  ParseFrom(toks, i + 1, [stack EXCEPT ![n] = e], root)
               [] OTHER ->
                    IF n = 0 \/ stack[n].tag.name # t.name
                    THEN ParseError
                    ELSE IF n = 1
                         THEN ParseFrom(toks, i + 1, <<>>, stack[1])
                         ELSE LET p == [stack[n - 1] EXCEPT
                                            !.children = Append(@, stack[n])]
                              IN  ParseFrom(toks, i + 1,
                                            Append(SubSeq(stack, 1, n - 2), p), root)

\* ElementTree.fromstring(text)
fromstring(text) == ParseFrom(text, 1, <<>>, NoElem)

RECURSIVE UsesNs(_)
\* some element of the tree is in the namespace NS
UsesNs(e) == e.tag.ns = NS \/ \E i \in 1..Len(e.children) : UsesNs(e.children[i])

RECURSIVE SerializeElem(_, _)
RECURSIVE SerializeAll(_, _)
SerializeAll(es, i) ==
    IF i > Len(es) THEN <<>> ELSE SerializeElem(es[i], NoDecl) \o SerializeAll(es, i + 1)

\* one element, with the namespace declarations `xmlns` only the root gets
SerializeElem(e, xmlns) ==
    <<Open(e.tag.name, xmlns, e.attrib)>>
    \o (IF str(e.text) # <<>> /\ e.text.t = "str" THEN <<Text(e.text.v)>> ELSE <<>>)
    \o SerializeAll(e.children, 1)
    \o <<Close(e.tag.name)>>

\* ElementTree.tostring(tree, encoding='unicode') with NS registered as ''
tostring(tree) == SerializeElem(tree, IF UsesNs(tree) THEN NS ELSE NoDecl)

(***************************************************************************)
(* base64.b64encode over the characters the model's credentials use.      *)
(***************************************************************************)
B64Alphabet ==
    <<"A", "B", "C", "D", "E", "F", "G", "H", "I", "J", "K", "L", "M", "N", "O", "P",
      "Q", "R", "S", "T", "U", "V", "W", "X", "Y", "Z", "a", "b", "c", "d", "e", "f",
      "g", "h", "i", "j", "k", "l", "m", "n", "o", "p", "q", "r", "s", "t", "u", "v",
      "w", "x", "y", "z", "0", "1", "2", "3", "4", "5", "6", "7", "8", "9", "+", "/">>

\* creds.encode('utf-8'): the byte of each character
Ord(c) ==
    CASE c = ":" -> 58 [] c = "a" -> 97 [] c = "d" -> 100 [] c = "e" -> 101
      [] c = "i" -> 105 [] c = "m" -> 109 [] c = "n" -> 110 [] c = "p" -> 112
      [] c = "r" -> 114 [] c = "s" -> 115 [] c = "u" -> 117 [] c = "w" -> 119

RECURSIVE b64encode(_)
b64encode(b) ==
    LET c(i) == B64Alphabet[i + 1]
    IN  CASE Len(b) = 0 -> <<>>
          [] Len(b) = 1 ->
                <<c(b[1] \div 4), c((b[1] % 4) * 16), "=", "=">>
          [] Len(b) = 2 ->
                <<c(b[1] \div 4), c((b[1] % 4) * 16 + b[2] \div 16),
                  c((b[2] % 16) * 4), "=">>
          [] OTHER ->
                <<c(b[1] \div 4), c((b[1] % 4) * 16 + b[2] \div 16),
                  c((b[2] % 16) * 4 + b[3] \div 64), c(b[3] % 64)>>
                \o b64encode(SubSeq(b, 4, Len(b)))

(***************************************************************************)
(* The CspcApi object.                                                     *)
(***************************************************************************)
Port == <<":", "8", "0", "0", "1">>

TypeName == <<"C", "s", "p", "c", "A", "p", "i">>

\* CspcApi(host, user, pwd, verify)
__init__(host, user, pwd, verify) ==
    LET creds == user \o <<":">> \o pwd
        encodedAuth == b64encode([i \in 1..Len(creds) |-> Ord(creds[i])])
        headers == [accept |-> "application/xml",
                    Authorization |-> <<"B", "a", "s", "i", "c", " ">> \o encodedAuth,
                    cache_control |-> "no-cache"]
    IN  [host |-> host \o Port,
         user |-> user,
         password |-> pwd,
         creds |-> creds,
         encodedAuth |-> encodedAuth,
         headers |-> headers,
         kwargs |-> [verify |-> verify, headers |-> headers]]

\* a mutant of __str__: the stored host, port included (self.host, not self.host[:-5])
__str__ShowsPort(obj) ==
    TypeName \o <<"(", "\"">> \o obj.host
    \o <<"\"", ",", " ", "\"">> \o obj.user
    \o <<"\"", ",", " ", "\"">> \o obj.password
    \o <<"\"", ",", " ">> \o BoolStr(obj.kwargs.verify) \o <<")">>

\* str(obj)
__str__(obj) ==
    TypeName \o <<"(", "\"">> \o SubSeq(obj.host, 1, Len(obj.host) - 5)
    \o <<"\"", ",", " ", "\"">> \o obj.user
    \o <<"\"", ",", " ", "\"">> \o obj.password
    \o <<"\"", ",", " ">> \o BoolStr(obj.kwargs.verify) \o <<")">>

\* a mutant of __eq__: the password is left out of the comparison
__eq__NoPassword(a, b) ==
    <<a.host, a.user, a.kwargs.verify>> = <<b.host, b.user, b.kwargs.verify>>

\* a == b
__eq__(a, b) ==
    <<a.host, a.user, a.password, a.kwargs.verify>>
        = <<b.host, b.user, b.password, b.kwargs.verify>>

(***************************************************************************)
(* ElementTree: find, findall, findtext, append, set.  An element inside   *)
(* a tree is named by its path, the child indexes from the root.           *)
(***************************************************************************)
RECURSIVE At(_, _)
At(e, path) == IF path = <<>> THEN e ELSE At(e.children[path[1]], Tail(path))

RECURSIVE Paths(_)
RECURSIVE PathsFrom(_, _)
PathsFrom(e, i) ==
    IF i > Len(e.children)
    THEN <<>>
    ELSE LET sub == Paths(e.children[i])
         IN  <<<<i>>>> \o [j \in 1..Len(sub) |-> <<i>> \o sub[j]] \o PathsFrom(e, i + 1)

\* the descendants of e (e itself excluded) in document order
Paths(e) == PathsFrom(e, 1)

\* the paths of `ps` whose element has the tag `tag`
MatchingPaths(e, tag) == SelectSeq(Paths(e), LAMBDA p : At(e, p).tag = tag)

NotFound == [found |-> FALSE, path |-> <<>>]

\* elem.find('.//' + tag): the first descendant with that tag, or None
find(e, tag) ==
    LET m == MatchingPaths(e, tag)
    IN  IF m = <<>> THEN NotFound ELSE [found |-> TRUE, path |-> m[1]]

\* elem.findall('.//' + tag): every descendant with that tag, in document order
findall(e, tag) ==
    LET m == MatchingPaths(e, tag) IN [i \in 1..Len(m) |-> At(e, m[i])]

\* elem.findtext(tag): the text of the first child with that tag ('' when it
\* has none), None when there is no such child
findtext(e, tag) ==
    LET m == SelectSeq(e.children, LAMBDA c : c.tag = tag)
    IN  IF m = <<>> THEN PyNone
        ELSE IF m[1].text.t = "None" THEN PyStr(<<>>) ELSE m[1].text

\* a mutant of append: the child is put in front (insert(0, child))
appendInFront(parent, child) == [parent EXCEPT !.children = <<child>> \o @]

\* parent.append(child)
append(parent, child) == [parent EXCEPT !.children = Append(@, child)]

RECURSIVE AppendAt(_, _, _)
\* append(child) on the element of `tree` at `path`
AppendAt(tree, path, child) ==
    IF path = <<>>
    THEN append(tree, child)
    ELSE [tree EXCEPT !.children[path[1]] = AppendAt(@, Tail(path), child)]

\* dict[key] = value on an ordered dict, a sequence of [key, value]
DictSet(d, key, value) ==
    IF \E i \in 1..Len(d) : d[i].key = key
    THEN [i \in 1..Len(d) |-> IF d[i].key = key THEN [key |-> key, value |-> value] ELSE d[i]]
    ELSE Append(d, [key |-> key, value |-> value])

RECURSIVE SetAt(_, _, _, _)
\* set(key, value) on the element of `tree` at `path`
SetAt(tree, path, key, value) ==
    IF path = <<>>
    THEN [tree EXCEPT !.attrib = DictSet(@, key, value)]
    ELSE [tree EXCEPT !.children[path[1]] = SetAt(@, Tail(path), key, value)]

\* _add_elem_with_text(tag, text, parent): the parent with the new child
_add_elem_with_text(tag, text, parent) ==
    append(parent, [Element(tag, <<>>) EXCEPT !.text = PyStr(text)])

(***************************************************************************)
(* How a call ends: a return value or an exception, with the requests it   *)
(* sent and the stages it went through.                                    *)
(***************************************************************************)
NoResponse == [status_code |-> 0, text |-> <<>>]

NoExc == [type |-> "", arg |-> NoResponse]

Return(value, reqs, steps) ==
    [raised |-> FALSE, exc |-> NoExc, value |-> value, reqs |-> reqs, steps |-> steps]

Raise(type, arg, reqs, steps) ==
    [raised |-> TRUE, exc |-> [type |-> type, arg |-> arg], value |-> PyNone,
     reqs |-> reqs, steps |-> steps]

(***************************************************************************)
(* The transport.                                                          *)
(***************************************************************************)
Https == <<"h", "t", "t", "p", "s", ":", "/", "/">>

InfoPath == <<"/", "c", "s", "p", "c", "/", "i", "n", "f", "o">>

XmlPath == <<"/", "c", "s", "p", "c", "/", "x", "m", "l">>

SeedFilePath == <<"/", "c", "s", "p", "c", "/", "s", "e", "e", "d", "f", "i", "l", "e">>

\* what requests.get / requests.post puts on the wire
Request(method, link, data, parts, headers, verify) ==
    [method |-> method, link |-> link, data |-> data, files |-> parts,
     headers |-> headers, verify |-> verify]

\* _info(): the body of GET /cspc/info, whatever the status
_info(response) ==
    LET link == Https \o self.host \o InfoPath
        req == Request("GET", link, <<>>, <<>>, self.kwargs.headers, self.kwargs.verify)
    IN  Return(response.text, <<req>>, <<"get">>)

\* a mutant of _xml: the status is not looked at
_xmlNoStatusCheck(payload, response) ==
    LET link == Https \o self.host \o XmlPath
        req == Request("POST", link, payload, <<>>, self.kwargs.headers, self.kwargs.verify)
    IN  Return(response.text, <<req>>, <<"post">>)

\* _xml(payload): the body of POST /cspc/xml, RuntimeError(response) unless 200
_xml(payload, response) ==
    LET link == Https \o self.host \o XmlPath
        req == Request("POST", link, payload, <<>>, self.kwargs.headers, self.kwargs.verify)
    IN  IF response.status_code # 200
        THEN Raise("RuntimeError", response, <<req>>, <<"post">>)
        ELSE Return(response.text, <<req>>, <<"post">>)

(***************************************************************************)
(* xmltodict.parse and json.                                               *)
(***************************************************************************)
\* the distinct names of the children, in the order of their first occurrence
RECURSIVE ChildNames(_, _, _)
ChildNames(cs, i, acc) ==
    IF i > Len(cs) THEN acc
    ELSE ChildNames(cs, i + 1,
                    IF \E j \in 1..Len(acc) : acc[j] = cs[i].tag.name
                    THEN acc ELSE Append(acc, cs[i].tag.name))

RECURSIVE DictValue(_)
\* the value xmltodict gives an element: its text (None when empty) when it has
\* neither attributes nor children, else a dict of '@attribute's, child names
\* (children of one name collapse into a list) and '#text'
DictValue(e) ==
    IF e.attrib = <<>> /\ e.children = <<>>
    THEN IF str(e.text) = <<>> \/ e.text.t = "None" THEN PyNone ELSE e.text
    ELSE LET names == ChildNames(e.children, 1, <<>>)
             kids(n) == SelectSeq(e.children, LAMBDA c : c.tag.name = n)
             vals(n) == [i \in 1..Len(kids(n)) |-> DictValue(kids(n)[i])]
         IN  [t |-> "dict",
              v |-> [i \in 1..Len(e.attrib) |->
                        [key |-> [kind |-> "@", name |-> e.attrib[i].key],
                         value |-> PyStr(e.attrib[i].value)]]
                    \o [i \in 1..Len(names) |->
                        [key |-> [kind |-> "", name |-> names[i]],
                         value |-> IF Len(kids(names[i])) = 1
                                   THEN vals(names[i])[1]
                                   ELSE [t |-> "list", v |-> vals(names[i])]]]
                    \o (IF e.text.t = "str" /\ e.text.v # <<>>
                        THEN <<[key |-> [kind |-> "#", name |-> "text"], value |-> e.text]>>
                        ELSE <<>>)]

\* xmltodict.parse(text): {root name: value}, or no dict when the text is no XML
xmltodict_parse(text) ==
    LET tree == fromstring(RawEvents(text))
    IN  IF ~tree.ok THEN [ok |-> FALSE, value |-> PyNone]
        ELSE [ok |-> TRUE,
              value |-> [t |-> "dict",
                         v |-> <<[key |-> [kind |-> "", name |-> tree.elem.tag.name],
                                  value |-> DictValue(tree.elem)]>>]]

\* json.dumps(x): the JSON text of x;  json.loads reads it back
json_dumps(x) == [t |-> "json", v |-> x]

json_loads(j) == j.v

\* xml_to_json_elem(xml): an Element is serialized first
xml_to_json_elem(xml, isElement) == xmltodict_parse(IF isElement THEN tostring(xml) ELSE xml)

\* list_xml_to_json_elem(list_of_xml)
list_xml_to_json_elem(list_of_xml) ==
    LET json_data == [i \in 1..Len(list_of_xml) |-> xml_to_json_elem(list_of_xml[i], TRUE)]
    IN  IF \E i \in 1..Len(json_data) : ~json_data[i].ok
        THEN [ok |-> FALSE, value |-> PyNone]
        ELSE [ok |-> TRUE,
              value |-> json_loads(json_dumps(
                            [t |-> "list",
                             v |-> [i \in 1..Len(json_data) |-> json_data[i].value]]))]

(***************************************************************************)
(* Templates.                                                              *)
(***************************************************************************)
\* a mutant of _get_xml_payload: the document of the last call that used the
\* same file is kept and handed out again
_get_xml_payloadCached(request_name) ==
    IF last.file = request_name /\ last.reqs # <<>>
    THEN Return(last.reqs[1].data, <<>>, <<"load">>)
    ELSE IF ~files[request_name].exists
         THEN Raise("FileNotFoundError", NoResponse, <<>>, <<"load">>)
         ELSE Return(files[request_name].text, <<>>, <<"load">>)

\* _get_xml_payload(request_name): the text of the file, read on every call
_get_xml_payload(request_name) ==
    IF ~files[request_name].exists
    THEN Raise("FileNotFoundError", NoResponse, <<>>, <<"load">>)
    ELSE Return(files[request_name].text, <<>>, <<"load">>)

\* _get_xml_elem(path, elem_tree): find by the namespaced tag; None when absent
_get_xml_elem(path, elem_tree) == find(elem_tree, Tag(NS, path))

(***************************************************************************)
(* Queries.                                                                *)
(***************************************************************************)
\* get_devices(return_json)
get_devices(return_json, response) ==
    LET p == _get_xml_payload("get_details_of_all_devices.xml")
    IN  IF p.raised THEN p
        ELSE
        LET r == _xml(p.value, response)
        IN  IF r.raised THEN [r EXCEPT !.steps = p.steps \o @]
            ELSE
            LET tree == fromstring(r.value)
                st == p.steps \o r.steps \o <<"parse">>
            IN  IF ~tree.ok THEN Raise("ParseError", NoResponse, r.reqs, st)
                ELSE
                LET devices == findall(tree.elem, Tag("", "Device"))
                IN  IF ~return_json THEN Return(devices, r.reqs, st)
                    ELSE
                    LET j == list_xml_to_json_elem(devices)
                    IN  IF ~j.ok
                        THEN Raise("ExpatError", NoResponse, r.reqs, st \o <<"decode">>)
                        ELSE Return(j.value, r.reqs, st \o <<"decode">>)

S_reachable == <<"r", "e", "a", "c", "h", "a", "b", "l", "e">>

\* a mutant of the Status test: the comparison without .lower()
IsUnreachableCaseSensitive(status) == status # S_reachable

\* elem.findtext('Status').lower() != 'reachable'
IsUnreachable(status) == lower(status) # S_reachable

RECURSIVE UnreachableLoop(_, _, _)
\* the loop of get_unreachable_devices over devices[i..]; AttributeError on a
\* device without Status (None has no lower())
UnreachableLoop(devices, i, unreachable_devices) ==
    IF i > Len(devices) THEN [raised |-> FALSE, value |-> unreachable_devices]
    ELSE LET elem == devices[i]
             status == findtext(elem, Tag("", "Status"))
         IN  IF status.t = "None" THEN [raised |-> TRUE, value |-> <<>>]
             ELSE IF IsUnreachable(status.v)
                  THEN LET dev_dict ==
                               [Id |-> str(findtext(elem, Tag("", "Id"))),
                                HostName |-> str(findtext(elem, Tag("", "HostName"))),
                                IPAddress |-> str(findtext(elem, Tag("", "IPAddress"))),
                                Status |-> str(findtext(elem, Tag("", "Status")))]
                       IN  UnreachableLoop(devices, i + 1,
                                           Append(unreachable_devices, dev_dict))
                  ELSE UnreachableLoop(devices, i + 1, unreachable_devices)

\* a mutant of get_unreachable_devices: the device list is fetched a second
\* time before filtering
get_unreachable_devicesTwice(response) ==
    LET d == get_devices(FALSE, response)
    IN  IF d.raised THEN d
        ELSE LET l == UnreachableLoop(d.value, 1, <<>>)
                 st == d.steps \o <<"post", "filter">>
             IN  IF l.raised THEN Raise("AttributeError", NoResponse, d.reqs \o d.reqs, st)
                 ELSE Return(l.value, d.reqs \o d.reqs, st)

\* get_unreachable_devices()
get_unreachable_devices(response) ==
    LET d == get_devices(FALSE, response)
    IN  IF d.raised THEN d
        ELSE LET l == UnreachableLoop(d.value, 1, <<>>)
                 st == d.steps \o <<"filter">>
             IN  IF l.raised THEN Raise("AttributeError", NoResponse, d.reqs, st)
                 ELSE Return(l.value, d.reqs, st)

\* a mutant of _check_in_str: every member of a set has to be contained
_check_in_strAll(string_to_check, check) ==
    IF check.t = "str"
    THEN IF string_to_check.t = "None" THEN [raised |-> TRUE, value |-> FALSE]
         ELSE [raised |-> FALSE, value |-> IsIn(check.v, string_to_check.v)]
    ELSE IF check.t = "None" THEN [raised |-> TRUE, value |-> FALSE]
         ELSE IF check.v = {} THEN [raised |-> FALSE, value |-> TRUE]
              ELSE IF string_to_check.t = "None" THEN [raised |-> TRUE, value |-> FALSE]
                   ELSE [raised |-> FALSE,
                         value |-> \A item \in check.v : IsIn(item, string_to_check.v)]

\* a mutant of _check_in_str: a string that is None contains nothing
_check_in_strNoneSafe(string_to_check, check) ==
    IF check.t = "None" THEN [raised |-> TRUE, value |-> FALSE]
    ELSE IF string_to_check.t = "None" THEN [raised |-> FALSE, value |-> FALSE]
         ELSE IF check.t = "str"
              THEN [raised |-> FALSE, value |-> IsIn(check.v, string_to_check.v)]
              ELSE [raised |-> FALSE,
                    value |-> \E item \in check.v : IsIn(item, string_to_check.v)]

\* _check_in_str(string_to_check, check): check is a str or a set of str (or
\* None, the default of get_devices_by); TypeError when `in` meets None
_check_in_str(string_to_check, check) ==
    IF check.t = "str"
    THEN IF string_to_check.t = "None" THEN [raised |-> TRUE, value |-> FALSE]
         ELSE [raised |-> FALSE, value |-> IsIn(check.v, string_to_check.v)]
    ELSE IF check.t = "None" THEN [raised |-> TRUE, value |-> FALSE]
         ELSE IF check.v = {} THEN [raised |-> FALSE, value |-> FALSE]
              ELSE IF string_to_check.t = "None" THEN [raised |-> TRUE, value |-> FALSE]
                   ELSE [raised |-> FALSE,
                         value |-> \E item \in check.v : IsIn(item, string_to_check.v)]

RECURSIVE DeviceDict(_, _, _)
\* the inner loop of get_devices_by: device_dict[child.tag] = str(findtext(child.tag))
DeviceDict(device, i, device_dict) ==
    IF i > Len(device.children) THEN device_dict
    ELSE LET child == device.children[i]
         IN  DeviceDict(device, i + 1,
                        DictSet(device_dict, child.tag, str(findtext(device, child.tag))))

RECURSIVE MatchLoop(_, _, _, _, _)
\* the loop of get_devices_by over devices[i..]
MatchLoop(devices, i, key, value, matched_devices) ==
    IF i > Len(devices) THEN [raised |-> FALSE, value |-> matched_devices]
    ELSE LET device == devices[i]
             c == _check_in_str(findtext(device, Tag("", key)), value)
         IN  IF c.raised THEN [raised |-> TRUE, value |-> <<>>]
             ELSE IF c.value
                  THEN MatchLoop(devices, i + 1, key, value,
                                 Append(matched_devices, DeviceDict(device, 1, <<>>)))
                  ELSE MatchLoop(devices, i + 1, key, value, matched_devices)

\* get_devices_by(key, value)
get_devices_by(key, value, response) ==
    LET d == get_devices(FALSE, response)
    IN  IF d.raised THEN d
        ELSE LET l == MatchLoop(d.value, 1, key, value, <<>>)
                 st == d.steps \o <<"filter">>
             IN  IF l.raised THEN Raise("TypeError", NoResponse, d.reqs, st)
                 ELSE Return(l.value, d.reqs, st)

(***************************************************************************)
(* Requests built from a template.                                         *)
(***************************************************************************)
RECURSIVE AppendEach(_, _, _, _)
\* the `for` loop of an add/delete/discover operation from its i-th turn on:
\* container.append(elems[i]) on the found container, AttributeError on None
AppendEach(tree, container, elems, i) ==
    IF i > Len(elems) THEN [raised |-> FALSE, tree |-> tree]
    ELSE IF ~container.found THEN [raised |-> TRUE, tree |-> tree]
         ELSE AppendEach(AppendAt(tree, container.path, elems[i]), container, elems, i + 1)

\* the end of every such operation: request = self._xml(tostring(tree)), then
\* json.dumps(self.xml_to_json_elem(request)) if return_json
Submit(tree, return_json, response, steps) ==
    LET r == _xml(tostring(tree), response)
        st == steps \o <<"serialize">> \o r.steps
    IN  IF r.raised THEN [r EXCEPT !.steps = st]
        ELSE IF ~return_json THEN Return(r.value, r.reqs, st)
             ELSE LET j == xml_to_json_elem(r.value, FALSE)
                  IN  IF ~j.ok
                      THEN Raise("ExpatError", NoResponse, r.reqs, st \o <<"decode">>)
                      ELSE Return(json_dumps(j.value), r.reqs, st \o <<"decode">>)

\* load the template `file`, find `path` in it, append `elems`, submit
FromTemplate(file, path, elems, return_json, response) ==
    LET p == _get_xml_payload(file)
    IN  IF p.raised THEN p
        ELSE
        LET tree == fromstring(p.value)
        IN  IF ~tree.ok THEN Raise("ParseError", NoResponse, <<>>, <<"load", "parse">>)
            ELSE
            LET l == AppendEach(tree.elem, _get_xml_elem(path, tree.elem), elems, 1)
                st == <<"load", "parse", "find", "append">>
            IN  IF l.raised THEN Raise("AttributeError", NoResponse, <<>>, st)
                ELSE Submit(l.tree, return_json, response, st)

\* the DeviceCredential element of one snmpv2c entry
SnmpCredential(cred_name, creds) ==
    LET device_credential ==
            Element("DeviceCredential", <<[key |-> "identifier", value |-> cred_name]>>)
        c1 == _add_elem_with_text("Protocol", <<"s", "n", "m", "p", "v", "2", "c">>,
                                  device_credential)
        c2 == _add_elem_with_text("ReadCommunity", creds.snmp_read_community, c1)
        c3 == _add_elem_with_text("WriteCommunity", creds.snmp_write_community, c2)
        ip_expr == _add_elem_with_text("IpExpression", creds.ip_expression,
                                       Element("IpExpressionList", <<>>))
    IN  append(c3, ip_expr)

\* add_multiple_device_credentials_snmpv2c(credentials, return_json)
add_multiple_device_credentials_snmpv2c(credentials, return_json, response) ==
    FromTemplate("add_multiple_device_credentials.xml", "DeviceCredentialList",
                 [i \in 1..Len(credentials) |->
                     SnmpCredential(credentials[i].key, credentials[i].value)],
                 return_json, response)

\* the DeviceCredential element of one sshv2 entry
SshCredential(cred_name, creds) ==
    LET device_credential ==
            Element("DeviceCredential", <<[key |-> "identifier", value |-> cred_name]>>)
        c1 == _add_elem_with_text("Protocol", <<"s", "s", "h", "v", "2">>, device_credential)
        c2 == _add_elem_with_text("UserName", creds.user, c1)
        c3 == _add_elem_with_text("Password", creds.password, c2)
        c4 == _add_elem_with_text("EnablePassword", creds.enable_password, c3)
        ip_expr == _add_elem_with_text("IpExpression", creds.ip_expression,
                                       Element("IpExpressionList", <<>>))
    IN  append(c4, ip_expr)

\* add_multiple_device_credentials_ssh(credentials, return_json)
add_multiple_device_credentials_ssh(credentials, return_json, response) ==
    FromTemplate("add_multiple_device_credentials.xml", "DeviceCredentialList",
                 [i \in 1..Len(credentials) |->
                     SshCredential(credentials[i].key, credentials[i].value)],
                 return_json, response)

RECURSIVE DeviceElem(_, _, _)
\* the Device element of one mapping: a child per item, from the i-th item on
DeviceElem(device, i, elem) ==
    IF i > Len(device) THEN elem
    ELSE DeviceElem(device, i + 1,
                    append(elem, [Element(device[i].key, <<>>) EXCEPT
                                      !.text = PyStr(device[i].value)]))

\* add_multiple_devices(devices, return_json)
add_multiple_devices(devices, return_json, response) ==
    FromTemplate("add_multiple_devices.xml", "DeviceList",
                 [i \in 1..Len(devices) |-> DeviceElem(devices[i], 1, Element("Device", <<>>))],
                 return_json, response)

\* delete_multiple_devices(device_array, return_json)
delete_multiple_devices(device_array, return_json, response) ==
    FromTemplate("delete_multiple_devices.xml", "DeviceList",
                 [i \in 1..Len(device_array) |->
                     append(Element("Device", <<>>),
                            [Element("Id", <<>>) EXCEPT !.text = PyStr(device_array[i].Id)])],
                 return_json, response)

\* discover_multiple_devices(ips, return_json); ts is str(int(time.time()))
discover_multiple_devices(ips, return_json, ts, response) ==
    LET p == _get_xml_payload("discover_multiple_devices.xml")
    IN  IF p.raised THEN p
        ELSE
        LET tree == fromstring(p.value)
        IN  IF ~tree.ok THEN Raise("ParseError", NoResponse, <<>>, <<"load", "parse">>)
            ELSE
            LET device_list == _get_xml_elem("IPAddressList", tree.elem)
                job == _get_xml_elem("DiscoveryJob", tree.elem)
                st == <<"load", "parse", "find">>
            IN  IF ~job.found THEN Raise("AttributeError", NoResponse, <<>>, st)
                ELSE
                LET l == AppendEach(SetAt(tree.elem, job.path, "identifier", ts),
                                    device_list,
                                    [i \in 1..Len(ips) |->
                                        [Element("IPAddress", <<>>) EXCEPT
                                            !.text = PyStr(ips[i])]],
                                    1)
                IN  IF l.raised
                    THEN Raise("AttributeError", NoResponse, <<>>, st \o <<"append">>)
                    ELSE Submit(l.tree, return_json, response, st \o <<"append">>)

(***************************************************************************)
(* The seed file.                                                          *)
(***************************************************************************)
\* the f-string xmlrequest of send_and_import_seed_file_csv
SeedFileRequest(device_group_name, seed_file_name) ==
    <<Open("Request", NoDecl, <<>>), Open("Job", NoDecl, <<>>),
      Open("Schedule", NoDecl, <<[key |-> "operationId", value |-> <<"1">>]>>),
      Open("JobSchedule", NoDecl, <<[key |-> "runnow", value |-> <<"t", "r", "u", "e">>]>>),
      Close("JobSchedule"),
      Open("ImportSeedFileJob", NoDecl, <<[key |-> "jobName", value |-> <<"t", "e", "s", "t", "i", "m", "p", "o", "r", "t">>]>>)>>
    \o Leaf("Description", <<"I", "m", "p", "o", "r", "t", " ", "S", "e", "e", "d", "F", "i", "l", "e", " ", "J", "o", "b", " ">>)
    \o Leaf("DeviceGroup", device_group_name)
    \o Leaf("SeedFileDescr", <<"c", "n", "c", " ", "s", "e", "e", "d", " ", "f", "i", "l", "e">>)
    \o Leaf("SeedFileFormat", <<"C", "I", "S", "C", "O", "_", "C", "N", "C", "_", "C", "S", "V">>)
    \o <<Open("FileDetails", NoDecl, <<>>)>>
    \o Leaf("SeedFileName", seed_file_name)
    \o <<Close("FileDetails")>>
    \o Leaf("TriggerDiscovery", <<"t", "r", "u", "e">>)
    \o Leaf("TriggerDav", <<"f", "a", "l", "s", "e">>)
    \o <<Close("ImportSeedFileJob"), Close("Schedule"), Close("Job"), Close("Request")>>

\* send_and_import_seed_file_csv(csv, device_group_name); now is
\* time.strftime("%Y%m%d-%H%M%S").  The body is returned whatever the status.
send_and_import_seed_file_csv(csv, device_group_name, now, response) ==
    LET seed_file_name == device_group_name \o <<"-">> \o now \o <<".", "c", "s", "v">>
        xmlrequest == SeedFileRequest(device_group_name, seed_file_name)
        link == Https \o self.host \o SeedFilePath
        parts == <<[name |-> "request", filename |-> PyNone, content |-> xmlrequest],
                   [name |-> "file", filename |-> PyStr(seed_file_name), content |-> csv]>>
        req == Request("POST", link, <<>>, parts, self.headers, FALSE)
    IN  Return(response.text, <<req>>, <<"post">>)

(***************************************************************************)
(* The CSV line of a device.                                               *)
(***************************************************************************)
RECURSIVE JoinFrom(_, _)
\* the f-string of the columns from the i-th on: a comma between two columns
JoinFrom(cols, i) ==
    IF i > Len(cols) THEN <<>>
    ELSE cols[i] \o (IF i < Len(cols) THEN <<",">> ELSE <<>>) \o JoinFrom(cols, i + 1)

\* a mutant of the column layout: the SNMP communities two columns late
CsvColumnsShifted(ipaddress, hostname, username, password, enable_password, snmp_v2_RO, snmp_v2_RW) ==
    <<ipaddress, hostname, <<>>, <<>>, <<>>, <<>>, <<>>, <<>>, <<>>, <<>>,
      snmp_v2_RO, snmp_v2_RW, <<>>, <<>>, <<>>, <<>>,
      username, password, enable_password>>
    \o [i \in 1..17 |-> <<>>]

\* col1_... to col36_... of get_formatted_csv_device_entry
CsvColumns(ipaddress, hostname, username, password, enable_password, snmp_v2_RO, snmp_v2_RW) ==
    <<
      ipaddress, hostname, <<>>, <<>>, <<>>, <<>>,
      <<>>, <<>>, snmp_v2_RO, snmp_v2_RW, <<>>, <<>>,
      <<>>, <<>>, <<>>, <<>>, username, password,
      enable_password, <<>>, <<>>, <<>>, <<>>, <<>>,
      <<>>, <<>>, <<>>, <<>>, <<>>, <<>>,
      <<>>, <<>>, <<>>, <<>>, <<>>, <<>>
    >>

\* get_formatted_csv_device_entry(ipaddress, hostname, username, password,
\*                                enable_password, snmp_v2_RO, snmp_v2_RW)
get_formatted_csv_device_entry(ipaddress, hostname, username, password, enable_password, snmp_v2_RO, snmp_v2_RW) ==
    JoinFrom(CsvColumns(ipaddress, hostname, username, password, enable_password,
                        snmp_v2_RO, snmp_v2_RW), 1) \o <<"\n">>

(***************************************************************************)
(* The inputs: constructor arguments, the template directory, arguments    *)
(* of the calls, the appliance's responses.                                *)
(***************************************************************************)
Hosts == {<<"1", ".", "1", ".", "1", ".", "1">>, <<"c", "s", "p", "c">>}

Users == {<<"u", "s", "e", "r">>, <<"a", "d", "m", "i", "n">>}

Passwords == {<<"p", "w">>, <<"p", "a", "s", "s">>}

Reverse(q) == [i \in 1..Len(q) |-> q[Len(q) + 1 - i]]

\* the argument lists tried: the first k entries of `pool` for every k up to n,
\* and the longest of them in the opposite order
Lists(pool, n) ==
    LET m == IF n < Len(pool) THEN n ELSE Len(pool)
    IN  {SubSeq(pool, 1, k) : k \in 0..m} \cup {Reverse(SubSeq(pool, 1, m))}

Response(status_code, text) == [status_code |-> status_code, text |-> text]

\* what the appliance may answer
Responses ==
    {Response(200, b) : b \in Bodies} \cup {Response(201, BodyHosts), Response(500, BodyNotXml)}

\* the answers tried on the operations that do not read a device list
FewResponses ==
    {Response(200, BodyOne), Response(200, BodyNotXml), Response(201, BodyOne),
     Response(500, BodyNotXml)}

\* return_json and the answer, for the operations made from a template: a
\* body that is no XML where it is decoded and where it is not read at all
Answers ==
    (BOOLEAN \X {Response(200, BodyOne), Response(201, BodyOne)})
    \cup {<<TRUE, Response(200, BodyNotXml)>>, <<FALSE, Response(500, BodyNotXml)>>}

PySet(S) == [t |-> "set", v |-> S]

Keys == {"HostName", "Status"}

Values ==
    {PyStr(<<"s", "w", "i", "t", "c", "h">>), PyStr(<<"R", "e", "a", "c", "h">>), PyStr(<<>>), PyNone,
     PySet({<<"s", "w", "i", "t", "c", "h">>, <<"r", "o", "u", "t", "e", "r">>}), PySet({})}

FewValues == {PyStr(<<"s", "w", "i", "t", "c", "h">>), PySet({<<"s", "w", "i", "t", "c", "h">>, <<"r", "o", "u", "t", "e", "r">>})}

Ips == <<<<"1", ".", "1">>, <<"1", ".", "2">>, <<"1", ".", "3">>>>

DeviceMappings ==
    <<<<[key |-> "IPAddress", value |-> <<"1", ".", "1">>], [key |-> "HostName", value |-> <<"s", "w", "i", "t", "c", "h", "1">>]>>,
      <<[key |-> "HostName", value |-> <<"r", "o", "u", "t", "e", "r", "2">>], [key |-> "IPAddress", value |-> <<"1", ".", "2">>]>>,
      <<[key |-> "IPAddress", value |-> <<"1", ".", "3">>]>>>>

DeviceRecords == <<[Id |-> <<"1">>], [Id |-> <<"2">>], [Id |-> <<"3">>]>>

SnmpEntries ==
    <<[key |-> <<"c", "1">>, value |-> [ip_expression |-> <<"*", ".", "*">>, snmp_read_community |-> <<"p", "u", "b", "l", "i", "c">>,
                                snmp_write_community |-> <<"p", "r", "i", "v", "a", "t", "e">>]],
      [key |-> <<"c", "2">>, value |-> [ip_expression |-> <<"1", ".", "*">>, snmp_read_community |-> <<"r", "o">>,
                                snmp_write_community |-> <<"r", "w">>]],
      [key |-> <<"c", "3">>, value |-> [ip_expression |-> <<"2", ".", "*">>, snmp_read_community |-> <<"r", "o">>,
                                snmp_write_community |-> <<"r", "o">>]]>>

SshEntries ==
    <<[key |-> <<"c", "1">>, value |-> [ip_expression |-> <<"*", ".", "*">>, user |-> <<"a", "d", "m", "i", "n">>,
                                password |-> <<"p", "w">>, enable_password |-> <<"e", "n">>]],
      [key |-> <<"c", "2">>, value |-> [ip_expression |-> <<"1", ".", "*">>, user |-> <<"u", "s", "e", "r">>,
                                password |-> <<"p", "a", "s", "s">>, enable_password |-> <<"p", "w">>]],
      [key |-> <<"c", "3">>, value |-> [ip_expression |-> <<"2", ".", "*">>, user |-> <<"u", "s", "e", "r">>,
                                password |-> <<"p", "w">>, enable_password |-> <<"p", "w">>]]>>

Groups == {<<>>, <<"l", "a", "b">>}

Now == <<"2", "0", "2", "6", "0", "1", "0", "1", "-", "1", "2", "0", "0", "0", "0">>

Timestamp == <<"1", "7", "6", "7", "2", "6", "8", "8", "0", "0">>

CsvTexts == {<<"1", ".", "1", "\n">>}

CtorArgs == Hosts \X Users \X Passwords \X BOOLEAN

Construct(a) == __init__(a[1], a[2], a[3], a[4])

NoCall ==
    [op |-> "", args |-> <<>>, file |-> "", response |-> NoResponse, raised |-> FALSE,
     exc |-> NoExc, value |-> PyNone, reqs |-> <<>>, steps |-> <<>>]

(***************************************************************************)
(* The calls.  Each action is one call of a public method on self, with    *)
(* its arguments and the appliance's answer drawn from the input sets.     *)
(***************************************************************************)
\* the operations that add elements to a template
TemplateOps ==
    {"add_multiple_device_credentials_snmpv2c", "add_multiple_device_credentials_ssh",
     "add_multiple_devices", "delete_multiple_devices", "discover_multiple_devices"}

\* a mutant of Call: the upload of a seed file stores the verify=False it
\* sends with in self.kwargs
CallStoringVerify(op, args, file, response, c) ==
    /\ last' = [op |-> op, args |-> args, file |-> file,
                response |-> IF c.reqs = <<>> THEN NoResponse ELSE response,
                raised |-> c.raised, exc |-> c.exc, value |-> c.value,
                reqs |-> c.reqs, steps |-> c.steps]
    /\ reused' = (/\ op \in TemplateOps
                  /\ last.op \in TemplateOps
                  /\ last.file = file
                  /\ last.reqs # <<>>
                  /\ last.args[1] # <<>>)
    /\ self' = IF op = "send_and_import_seed_file_csv"
               THEN [self EXCEPT !.kwargs.verify = FALSE]
               ELSE self
    /\ UNCHANGED <<other, ctor, files>>

\* the call `op` ended as `c` says
Call(op, args, file, response, c) ==
    /\ last' = [op |-> op, args |-> args, file |-> file,
                response |-> IF c.reqs = <<>> THEN NoResponse ELSE response,
                raised |-> c.raised, exc |-> c.exc, value |-> c.value,
                reqs |-> c.reqs, steps |-> c.steps]
    /\ reused' = (/\ op \in TemplateOps
                  /\ last.op \in TemplateOps
                  /\ last.file = file
                  /\ last.reqs # <<>>
                  /\ last.args[1] # <<>>)
    /\ UNCHANGED <<self, other, ctor, files>>

GetInfo ==
    \E response \in FewResponses :
        Call("_info", <<>>, "", response, _info(response))

PostXml ==
    \E payload \in {GetTemplate, BodyNotXml}, response \in FewResponses :
        Call("_xml", <<payload>>, "", response, _xml(payload, response))

PostSeedFile ==
    \E csv \in CsvTexts, group \in Groups, response \in FewResponses :
        Call("send_and_import_seed_file_csv", <<csv, group>>, "", response,
             send_and_import_seed_file_csv(csv, group, Now, response))

ListDevicesOn(responses) ==
    \E return_json \in BOOLEAN, response \in responses :
        Call("get_devices", <<return_json>>, "get_details_of_all_devices.xml", response,
             get_devices(return_json, response))

ListUnreachableDevicesOn(responses) ==
    \E response \in responses :
        Call("get_unreachable_devices", <<>>, "get_details_of_all_devices.xml", response,
             get_unreachable_devices(response))

FindDevicesByOn(keys, values, responses) ==
    \E key \in keys, value \in values, response \in responses :
        Call("get_devices_by", <<key, value>>, "get_details_of_all_devices.xml", response,
             get_devices_by(key, value, response))

ListDevices == ListDevicesOn(FewResponses)

ListUnreachableDevices == ListUnreachableDevicesOn(FewResponses)

FindDevicesBy == FindDevicesByOn({"HostName"}, FewValues, FewResponses)

AddCredentialsSnmpV2c ==
    \E credentials \in Lists(SnmpEntries, MaxEntries), answer \in Answers :
        LET return_json == answer[1]
            response == answer[2]
        IN  Call("add_multiple_device_credentials_snmpv2c", <<credentials, return_json>>,
             "add_multiple_device_credentials.xml", response,
             add_multiple_device_credentials_snmpv2c(credentials, return_json, response))

AddCredentialsSsh ==
    \E credentials \in Lists(SshEntries, MaxEntries), answer \in Answers :
        LET return_json == answer[1]
            response == answer[2]
        IN  Call("add_multiple_device_credentials_ssh", <<credentials, return_json>>,
             "add_multiple_device_credentials.xml", response,
             add_multiple_device_credentials_ssh(credentials, return_json, response))

AddDevices ==
    \E devices \in Lists(DeviceMappings, MaxEntries), answer \in Answers :
        LET return_json == answer[1]
            response == answer[2]
        IN  Call("add_multiple_devices", <<devices, return_json>>, "add_multiple_devices.xml",
             response, add_multiple_devices(devices, return_json, response))

DeleteDevices ==
    \E device_array \in Lists(DeviceRecords, MaxEntries), answer \in Answers :
        LET return_json == answer[1]
            response == answer[2]
        IN  Call("delete_multiple_devices", <<device_array, return_json>>,
             "delete_multiple_devices.xml", response,
             delete_multiple_devices(device_array, return_json, response))

DiscoverDevices ==
    \E ips \in Lists(Ips, MaxEntries), answer \in Answers :
        LET return_json == answer[1]
            response == answer[2]
        IN  Call("discover_multiple_devices", <<ips, return_json>>,
             "discover_multiple_devices.xml", response,
             discover_multiple_devices(ips, return_json, Timestamp, response))

FormatCsvDeviceRowOn(ipaddresses, hostnames, others) ==
    \E ipaddress \in ipaddresses,
       hostname \in hostnames, username \in others, password \in others,
       enable_password \in others, snmp_v2_RO \in others, snmp_v2_RW \in others :
        Call("get_formatted_csv_device_entry",
             <<ipaddress, hostname, username, password, enable_password,
               snmp_v2_RO, snmp_v2_RW>>, "", NoResponse,
             Return(get_formatted_csv_device_entry(ipaddress, hostname, username, password,
                                                   enable_password, snmp_v2_RO, snmp_v2_RW),
                    <<>>, <<>>))

FormatCsvDeviceRow == FormatCsvDeviceRowOn({<<"1", "0", ".", "0", ".", "0", ".", "1">>}, {<<>>, <<"s", "w">>}, {<<>>})

\* the state after construction: one object, any template directory
Init ==
    /\ \E verify \in BOOLEAN :
          ctor = <<<<<<"1", ".", "1", ".", "1", ".", "1">>, <<"u", "s", "e", "r">>, <<"p", "w">>, verify>>,
                   <<<<"1", ".", "1", ".", "1", ".", "1">>, <<"u", "s", "e", "r">>, <<"p", "w">>, verify>>>>
    /\ self = Construct(ctor[1])
    /\ other = self
    /\ files \in TemplateDirs
    /\ ctor[1][4] \/ files = DirEmpty
    /\ last = NoCall
    /\ reused = FALSE

Next ==
    \/ GetInfo
    \/ PostXml
    \/ PostSeedFile
    \/ ListDevices
    \/ ListUnreachableDevices
    \/ FindDevicesBy
    \/ AddCredentialsSnmpV2c
    \/ AddCredentialsSsh
    \/ AddDevices
    \/ DeleteDevices
    \/ DiscoverDevices
    \/ FormatCsvDeviceRow

Spec == Init /\ [][Next]_vars

(***************************************************************************)
(* The queries alone, on every response of the model.                      *)
(***************************************************************************)
InitQuery ==
    /\ ctor = <<<<<<"1", ".", "1", ".", "1", ".", "1">>, <<"u", "s", "e", "r">>, <<"p", "w">>, TRUE>>, <<<<"1", ".", "1", ".", "1", ".", "1">>, <<"u", "s", "e", "r">>, <<"p", "w">>, TRUE>>>>
    /\ self = Construct(ctor[1])
    /\ other = self
    /\ files \in {DirEmpty, DirBroken}
    /\ last = NoCall
    /\ reused = FALSE

ListDevicesAny == ListDevicesOn(Responses)

ListUnreachableDevicesAny == ListUnreachableDevicesOn(Responses)

FindDevicesByAny == FindDevicesByOn(Keys, Values, Responses)

NextQuery == ListDevicesAny \/ ListUnreachableDevicesAny \/ FindDevicesByAny

SpecQuery == InitQuery /\ [][NextQuery]_vars

(***************************************************************************)
(* The CSV line alone, on every combination of its arguments.              *)
(***************************************************************************)
InitCsv ==
    /\ ctor = <<<<<<"1", ".", "1", ".", "1", ".", "1">>, <<"u", "s", "e", "r">>, <<"p", "w">>, TRUE>>, <<<<"1", ".", "1", ".", "1", ".", "1">>, <<"u", "s", "e", "r">>, <<"p", "w">>, TRUE>>>>
    /\ self = Construct(ctor[1])
    /\ other = self
    /\ files = DirEmpty
    /\ last = NoCall
    /\ reused = FALSE

FormatCsvDeviceRowAny ==
    FormatCsvDeviceRowOn({<<"1", "0", ".", "0", ".", "0", ".", "1">>, <<"s", "w", "1">>}, {<<>>, <<"s", "w">>, <<"s", ",", "w">>}, {<<>>, <<"a", "b">>})

NextCsv == FormatCsvDeviceRowAny

SpecCsv == InitCsv /\ [][NextCsv]_vars

(***************************************************************************)
(* The object's own methods, on two objects made from any arguments.       *)
(***************************************************************************)
InitCtx ==
    /\ ctor \in CtorArgs \X CtorArgs
    /\ self = Construct(ctor[1])
    /\ other = Construct(ctor[2])
    /\ files = DirEmpty
    /\ last = NoCall
    /\ reused = FALSE

Obj(x) == IF x = "self" THEN self ELSE other

\* x == y for x, y among self and other
Equals ==
    \E x \in {"self", "other"}, y \in {"self", "other"} :
        /\ last' = [NoCall EXCEPT !.op = "__eq__", !.args = <<x, y>>,
                                  !.value = __eq__(Obj(x), Obj(y))]
        /\ UNCHANGED <<self, other, ctor, files, reused>>

\* str(x) for x among self and other
DisplayString ==
    \E x \in {"self", "other"} :
        /\ last' = [NoCall EXCEPT !.op = "__str__", !.args = <<x>>,
                                  !.value = __str__(Obj(x))]
        /\ UNCHANGED <<self, other, ctor, files, reused>>

NextCtx == Equals \/ DisplayString

SpecCtx == InitCtx /\ [][NextCtx]_vars

(***************************************************************************)
(* Properties.                                                             *)
(***************************************************************************)
\* the operations that submit through _xml
SubmitOps ==
    TemplateOps \cup {"_xml", "get_devices", "get_unreachable_devices", "get_devices_by"}

\* C1: when the answer to the POST to /cspc/xml is not 200, the operation ends
\* in an error carrying the response, returns nothing and does nothing after
\* the POST (for either value of return_json); on 200, _xml returns the body
\* unchanged.
C1_Non200Aborts ==
    last.op \in SubmitOps /\ last.reqs # <<>> =>
        /\ last.response.status_code # 200 =>
              /\ last.raised
              /\ last.exc = [type |-> "RuntimeError", arg |-> last.response]
              /\ last.value = PyNone
              /\ last.steps[Len(last.steps)] = "post"
        /\ last.response.status_code = 200 /\ last.op = "_xml" =>
              ~last.raised /\ last.value = last.response.text

\* an add_multiple_devices(..., return_json=True) answered 201 has ended in the error
C1_Witness ==
    /\ last.op = "add_multiple_devices"
    /\ last.args[2]
    /\ last.response.status_code = 201
    /\ last.raised
    /\ last.exc.arg.text = BodyOne

\* C2: a call of a public operation sends at most one request to the
\* appliance, and get_formatted_csv_device_entry sends none.
C2_OneRequestPerCall ==
    /\ Len(last.reqs) <= 1
    /\ last.op = "get_formatted_csv_device_entry" => last.reqs = <<>>

\* a get_unreachable_devices that returned records sent exactly one request
C2_Witness ==
    /\ last.op = "get_unreachable_devices"
    /\ ~last.raised
    /\ last.value # <<>>
    /\ Len(last.reqs) = 1

\* the list container an operation appends to
ContainerOf(op) ==
    CASE op \in {"add_multiple_devices", "delete_multiple_devices"} -> "DeviceList"
      [] op = "discover_multiple_devices" -> "IPAddressList"
      [] OTHER -> "DeviceCredentialList"

\* the payload of the last call as the appliance reads it, and the template
\* file the call was made from
SentDoc == fromstring(last.reqs[1].data).elem

TemplateDoc == fromstring(files[last.file].text).elem

\* the children of the first element named `name`; none when there is no such element
KidsOf(doc, name) ==
    LET c == find(doc, Tag(NS, name))
    IN  IF c.found THEN At(doc, c.path).children ELSE <<>>

RECURSIVE NoJobId(_)
\* the document without the identifier attribute of its DiscoveryJob elements
NoJobId(e) ==
    [e EXCEPT !.attrib = IF e.tag.name = "DiscoveryJob"
                         THEN SelectSeq(@, LAMBDA a : a.key # "identifier") ELSE @,
              !.children = [i \in 1..Len(@) |-> NoJobId(@[i])]]

RECURSIVE CutAt(_, _, _)
\* the document with the children of the element at `path` cut to the first n
CutAt(e, path, n) ==
    IF path = <<>>
    THEN [e EXCEPT !.children = SubSeq(@, 1, n)]
    ELSE [e EXCEPT !.children[path[1]] = CutAt(@, Tail(path), n)]

\* C3: a submitted payload is the template file as it is on disk plus one
\* element per entry of the call's own argument: nothing an earlier call
\* appended is in it.
C3_TemplateFreshPerCall ==
    last.op \in TemplateOps /\ last.reqs # <<>> =>
        LET c == find(SentDoc, Tag(NS, ContainerOf(last.op)))
            n0 == Len(KidsOf(TemplateDoc, ContainerOf(last.op)))
        IN  /\ Len(KidsOf(SentDoc, ContainerOf(last.op))) = n0 + Len(last.args[1])
            /\ NoJobId(IF c.found THEN CutAt(SentDoc, c.path, n0) ELSE SentDoc)
                   = NoJobId(TemplateDoc)

\* a call has submitted a payload with elements of its own, made from the
\* template the call before it had added elements to
C3_Witness ==
    /\ reused
    /\ last.op \in TemplateOps
    /\ last.reqs # <<>>
    /\ last.args[1] # <<>>
    /\ files = DirFilled

\* the names and texts of an element's children, in order
FieldsOf(e) ==
    [i \in 1..Len(e.children) |->
        [key |-> e.children[i].tag.name, value |-> str(e.children[i].text)]]

\* the element an operation makes of one entry of its argument, as the
\* appliance reads it: its name, attributes and fields
MadeOf(op, entry) ==
    CASE op = "add_multiple_devices" ->
             [name |-> "Device", attrib |-> <<>>, fields |-> entry]
      [] op = "delete_multiple_devices" ->
             [name |-> "Device", attrib |-> <<>>,
              fields |-> <<[key |-> "Id", value |-> entry.Id]>>]
      [] op = "discover_multiple_devices" ->
             [name |-> "IPAddress", attrib |-> <<>>, fields |-> <<>>]
      [] OTHER ->
             [name |-> "DeviceCredential",
              attrib |-> <<[key |-> "identifier", value |-> entry.key]>>,
              fields |-> <<>>]

\* C6: in a submitted payload the list container holds the template's own
\* children first and then exactly one element per entry of the argument, in
\* the argument's order; the fields of an added Device are in the order of the
\* mapping's pairs.
C6_DocumentOrderFollowsCallOrder ==
    last.op \in TemplateOps /\ last.reqs # <<>> =>
        LET kids == KidsOf(SentDoc, ContainerOf(last.op))
            old == KidsOf(TemplateDoc, ContainerOf(last.op))
            entries == last.args[1]
        IN  /\ Len(kids) = Len(old) + Len(entries)
            /\ SubSeq(kids, 1, Len(old)) = old
            /\ \A i \in 1..Len(entries) :
                  LET kid == kids[Len(old) + i]
                      made == MadeOf(last.op, entries[i])
                  IN  /\ kid.tag.name = made.name
                      /\ kid.attrib = made.attrib
                      /\ last.op = "discover_multiple_devices" => kid.text = PyStr(entries[i])
                      /\ last.op \in {"add_multiple_devices", "delete_multiple_devices"}
                             => FieldsOf(kid) = made.fields

\* two devices, router2 with HostName before IPAddress and then switch1 with
\* IPAddress before HostName, have been added to a template that had a Device
C6_Witness ==
    /\ last.op = "add_multiple_devices"
    /\ last.reqs # <<>>
    /\ files = DirFilled
    /\ Len(last.args[1]) = 2
    /\ last.args[1][1][1].key = "HostName"
    /\ KidsOf(TemplateDoc, "DeviceList") # <<>>

RECURSIVE BelowFrom(_, _)
\* the elements below e from its i-th child on, in document order
BelowFrom(e, i) ==
    IF i > Len(e.children) THEN <<>>
    ELSE <<e.children[i]>> \o BelowFrom(e.children[i], 1) \o BelowFrom(e, i + 1)

\* the devices of the answer to the last call, in the answer's order
ListedDevices ==
    SelectSeq(BelowFrom(fromstring(last.response.text).elem, 1),
              LAMBDA d : d.tag = Tag("", "Device"))

HasField(d, tag) == \E i \in 1..Len(d.children) : d.children[i].tag = tag

\* the text of the device's field `tag`: of the first child with that tag
FieldText(d, tag) ==
    LET c == d.children[CHOOSE i \in 1..Len(d.children) :
                            /\ d.children[i].tag = tag
                            /\ \A j \in 1..(i - 1) : d.children[j].tag # tag]
    IN  IF c.text.t = "None" THEN <<>> ELSE c.text.v

\* the field as a string: "None" for a field the device does not have
FieldStr(d, tag) == IF HasField(d, tag) THEN FieldText(d, tag) ELSE <<"N", "o", "n", "e">>

\* value selects the device by its field `key`
Selects(key, value, d) ==
    /\ HasField(d, Tag("", key))
    /\ \/ value.t = "str" /\ IsIn(value.v, FieldText(d, Tag("", key)))
       \/ value.t = "set" /\ \E member \in value.v : IsIn(member, FieldText(d, Tag("", key)))

\* entry maps every child tag of the device to its text
IsEntryOf(entry, d) ==
    /\ {entry[i].key : i \in 1..Len(entry)} = {d.children[i].tag : i \in 1..Len(d.children)}
    /\ \A i, j \in 1..Len(entry) : entry[i].key = entry[j].key => i = j
    /\ \A i \in 1..Len(entry) : entry[i].value = FieldStr(d, entry[i].key)

HostNameOf(entry) ==
    entry[CHOOSE i \in 1..Len(entry) : entry[i].key = Tag("", "HostName")].value

\* C4: get_devices_by(key, value) returns, in the order of the answer, an entry
\* for exactly the devices whose key field contains value (a str) or a member
\* of value (a set), each entry mapping every child tag to its text; for the
\* hosts switch1 and router2, "switch" selects switch1 only and
\* {"switch", "router"} selects both.
C4_SubstringFilter ==
    last.op = "get_devices_by" /\ ~last.raised =>
        LET key == last.args[1]
            value == last.args[2]
            selected == SelectSeq(ListedDevices, LAMBDA d : Selects(key, value, d))
        IN  /\ Len(last.value) = Len(selected)
            /\ \A i \in 1..Len(selected) : IsEntryOf(last.value[i], selected[i])
            /\ last.response.text = BodyHosts /\ key = "HostName" =>
                  /\ value = PyStr(<<"s", "w", "i", "t", "c", "h">>) =>
                        /\ Len(last.value) = 1
                        /\ HostNameOf(last.value[1]) = <<"s", "w", "i", "t", "c", "h", "1">>
                  /\ value = PySet({<<"s", "w", "i", "t", "c", "h">>, <<"r", "o", "u", "t", "e", "r">>}) =>
                        /\ Len(last.value) = 2
                        /\ HostNameOf(last.value[1]) = <<"s", "w", "i", "t", "c", "h", "1">>
                        /\ HostNameOf(last.value[2]) = <<"r", "o", "u", "t", "e", "r", "2">>

\* {"switch", "router"} has selected both switch1 and router2
C4_Witness ==
    /\ last.op = "get_devices_by"
    /\ last.args = <<"HostName", PySet({<<"s", "w", "i", "t", "c", "h">>, <<"r", "o", "u", "t", "e", "r">>})>>
    /\ last.response.text = BodyHosts
    /\ ~last.raised
    /\ Len(last.value) = 2

\* C5: get_unreachable_devices returns, in the order of the answer, one record
\* with exactly the keys Id, HostName, IPAddress and Status, each a string, for
\* exactly the devices whose Status in lower case is not "reachable"; for the
\* three devices Reachable, Unreachable, reachable it is the one Unreachable
\* record.
C5_UnreachableFilter ==
    last.op = "get_unreachable_devices" /\ ~last.raised =>
        LET unreachable ==
                SelectSeq(ListedDevices,
                          LAMBDA d : lower(FieldStr(d, Tag("", "Status"))) # lower(<<"r", "e", "a", "c", "h", "a", "b", "l", "e">>))
        IN  /\ last.value =
                  [i \in 1..Len(unreachable) |->
                      [Id |-> FieldStr(unreachable[i], Tag("", "Id")),
                       HostName |-> FieldStr(unreachable[i], Tag("", "HostName")),
                       IPAddress |-> FieldStr(unreachable[i], Tag("", "IPAddress")),
                       Status |-> FieldStr(unreachable[i], Tag("", "Status"))]]
            /\ \A i \in 1..Len(last.value) :
                  DOMAIN last.value[i] = {"Id", "HostName", "IPAddress", "Status"}
            /\ last.response.text = BodyStatus =>
                  /\ Len(last.value) = 1
                  /\ last.value[1].Status = <<"U", "n", "r", "e", "a", "c", "h", "a", "b", "l", "e">>

\* of Reachable, Unreachable and reachable the one Unreachable record has been returned
C5_Witness ==
    /\ last.op = "get_unreachable_devices"
    /\ last.response.text = BodyStatus
    /\ ~last.raised
    /\ last.value = <<[Id |-> <<"2">>, HostName |-> <<"r", "o", "u", "t", "e", "r", "2">>, IPAddress |-> <<"1", ".", "2">>,
                       Status |-> <<"U", "n", "r", "e", "a", "c", "h", "a", "b", "l", "e">>]>>

\* the arguments self or other was constructed from
CtorOf(x) == IF x = "self" THEN ctor[1] ELSE ctor[2]

\* C7: two constructed objects are equal exactly when they were constructed
\* from the same host, user, password and verify; equality is reflexive and
\* symmetric.
C7_StructuralEquality ==
    last.op = "__eq__" =>
        /\ last.value <=> (CtorOf(last.args[1]) = CtorOf(last.args[2]))
        /\ last.args[1] = last.args[2] => last.value
        /\ last.value = __eq__(Obj(last.args[2]), Obj(last.args[1]))

\* two objects that differ in the password only have compared unequal
C7_Witness ==
    /\ last.op = "__eq__"
    /\ last.args = <<"self", "other">>
    /\ ctor[1][3] # ctor[2][3]
    /\ <<ctor[1][1], ctor[1][2], ctor[1][4]>> = <<ctor[2][1], ctor[2][2], ctor[2][4]>>
    /\ ~last.value

Quoted(s) == <<"\"">> \o s \o <<"\"">>

\* C8: str() of an object constructed from (host, user, pwd, verify) is
\* CspcApi("host", "user", "pwd", verify) with the values as they were passed:
\* the host without the port, the password in plain text.
C8_DisplayString ==
    last.op = "__str__" =>
        LET c == CtorOf(last.args[1])
        IN  last.value = TypeName \o <<"(">> \o Quoted(c[1]) \o <<",", " ">> \o Quoted(c[2])
                         \o <<",", " ">> \o Quoted(c[3]) \o <<",", " ">> \o BoolStr(c[4])
                         \o <<")">>

\* str(CspcApi("1.1.1.1", "user", "pw", True)) has been taken
C8_Witness ==
    /\ last.op = "__str__"
    /\ CtorOf(last.args[1]) = <<<<"1", ".", "1", ".", "1", ".", "1">>, <<"u", "s", "e", "r">>, <<"p", "w">>, TRUE>>
    /\ last.value = <<"C", "s", "p", "c", "A", "p", "i", "(", "\"", "1", ".", "1", ".", "1", ".", "1", "\"", ",", " ", "\"", "u", "s", "e", "r", "\"", ",", " ", "\"", "p", "w", "\"", ",", " ", "T", "r", "u", "e", ")">>

RECURSIVE SplitFrom(_, _, _)
\* the comma-separated fields of line[i..], `field` being the one begun
SplitFrom(line, i, field) ==
    IF i > Len(line) THEN <<field>>
    ELSE IF line[i] = "," THEN <<field>> \o SplitFrom(line, i + 1, <<>>)
         ELSE SplitFrom(line, i + 1, Append(field, line[i]))

Count(line, c) == Cardinality({i \in 1..Len(line) : line[i] = c})

\* the field of the CSV line each argument of get_formatted_csv_device_entry goes to
CsvFieldOfArg == <<1, 2, 17, 18, 19, 9, 10>>

\* C9: for arguments without comma and newline, the line is 36 fields
\* separated by 35 commas and ended by one newline; ipaddress is field 1,
\* hostname 2, snmp_v2_RO 9, snmp_v2_RW 10, username 17, password 18,
\* enable_password 19, and the other 29 fields are empty.
C9_CsvRowShape ==
    /\ last.op = "get_formatted_csv_device_entry"
    /\ \A a \in 1..Len(last.args) : Count(last.args[a], ",") = 0 /\ Count(last.args[a], "\n") = 0
    => LET line == last.value
           fields == SplitFrom(SubSeq(line, 1, Len(line) - 1), 1, <<>>)
       IN  /\ Count(line, ",") = 35
           /\ Count(line, "\n") = 1
           /\ line[Len(line)] = "\n"
           /\ Len(fields) = 36
           /\ \A a \in 1..7 : fields[CsvFieldOfArg[a]] = last.args[a]
           /\ \A f \in 1..36 :
                 (\A a \in 1..7 : CsvFieldOfArg[a] # f) => fields[f] = <<>>
           /\ Cardinality({f \in 1..36 : \A a \in 1..7 : CsvFieldOfArg[a] # f}) = 29

\* the line of "10.0.0.1" alone: the address, 35 commas, a newline
C9_Witness ==
    /\ last.op = "get_formatted_csv_device_entry"
    /\ last.args = <<<<"1", "0", ".", "0", ".", "0", ".", "1">>, <<>>, <<>>, <<>>, <<>>, <<>>, <<>>>>
    /\ last.value = <<"1", "0", ".", "0", ".", "0", ".", "1">> \o [i \in 1..35 |-> ","] \o <<"\n">>

\* C10: when the answer to the POST of the seed file has no success status,
\* send_and_import_seed_file_csv raises instead of returning the body.
\* The code returns the body whatever the status.
C10_SeedFileRaisesOnFailure ==
    /\ last.op = "send_and_import_seed_file_csv"
    /\ last.response.status_code \notin 200..299
    => last.raised

\* the operations that send an XML document to the appliance
DocumentOps ==
    TemplateOps \cup {"get_devices", "get_unreachable_devices", "get_devices_by",
                      "send_and_import_seed_file_csv"}

\* the XML document of a request: the "request" part of an upload, the body
\* of any other POST
DocumentOf(req) == IF req.files # <<>> THEN req.files[1].content ELSE req.data

RECURSIVE AllInNs(_)
\* the element and everything below it is in the namespace NS
AllInNs(e) == e.tag.ns = NS /\ \A i \in 1..Len(e.children) : AllInNs(e.children[i])

\* the template file of the last call, where it has one, is a document whose
\* root declares the namespace NS
TemplateHasNs ==
    last.file # "" =>
        /\ files[last.file].exists
        /\ fromstring(files[last.file].text).ok
        /\ fromstring(files[last.file].text).elem.tag.ns = NS

\* C11: every XML document an operation sends (the payload made from a
\* template that declares the namespace, the job document of the seed file
\* upload) has the namespace NS on its root, and every element in it, the
\* added ones included, is in that namespace as the appliance reads it.
\* The job document of send_and_import_seed_file_csv declares no namespace.
C11_OutgoingNamespace ==
    last.op \in DocumentOps /\ TemplateHasNs =>
        \A i \in 1..Len(last.reqs) :
            /\ fromstring(DocumentOf(last.reqs[i])).ok
            /\ AllInNs(fromstring(DocumentOf(last.reqs[i])).elem)

\* C12: after any calls, failed ones included, the object holds the host,
\* user, password, verify and headers it was constructed with, so str() of it
\* and its equality with another object are what they were after
\* construction; the upload of a seed file sends with verify=False and
\* leaves the stored flag alone.
C12_ContextImmutable ==
    /\ self = Construct(ctor[1])
    /\ other = Construct(ctor[2])
    /\ __str__(self) = __str__(Construct(ctor[1]))
    /\ __eq__(self, other) = __eq__(Construct(ctor[1]), Construct(ctor[2]))
    /\ last.op = "send_and_import_seed_file_csv" =>
          /\ ~last.reqs[1].verify
          /\ self.kwargs.verify = ctor[1][4]

\* a seed file has been uploaded with verify=False and the object's headers
\* by an object constructed with verify=True, which still holds True
C12_Witness ==
    /\ last.op = "send_and_import_seed_file_csv"
    /\ ctor[1][4]
    /\ self.kwargs.verify
    /\ ~last.reqs[1].verify
    /\ self.headers = last.reqs[1].headers

\* the template of the last call is a document without the list container
\* the operation looks for
ContainerMissing ==
    /\ last.op \in TemplateOps
    /\ files[last.file].exists
    /\ fromstring(files[last.file].text).ok
    /\ ~find(TemplateDoc, Tag(NS, ContainerOf(last.op))).found

\* C13: when the template has no element of the container's name, the lookup
\* itself fails, and the operation ends in an error at the lookup without a
\* request to the appliance.
\* _get_xml_elem returns None; with nothing to append the template is sent.
C13_MissingContainerFails ==
    ContainerMissing =>
        /\ last.raised
        /\ last.reqs = <<>>
        /\ last.steps[Len(last.steps)] = "find"

\* the last call was answered 200 with a document, so that it came to its filter
Answered ==
    /\ last.reqs # <<>>
    /\ last.response.status_code = 200
    /\ fromstring(last.response.text).ok

\* some device of the answer has no child `tag`
SomeDeviceLacks(tag) ==
    \E i \in 1..Len(ListedDevices) : ~HasField(ListedDevices[i], tag)

\* the devices get_unreachable_devices returns records for
UnreachableDevices ==
    SelectSeq(ListedDevices,
              LAMBDA d : lower(FieldStr(d, Tag("", "Status"))) # lower(<<"r", "e", "a", "c", "h", "a", "b", "l", "e">>))

\* a call of get_unreachable_devices that returned gave the string "None" for
\* the Id, HostName or IPAddress a device does not have
MissingFieldsAreNone ==
    last.op = "get_unreachable_devices" /\ ~last.raised =>
        /\ Len(last.value) = Len(UnreachableDevices)
        /\ \A i \in 1..Len(last.value) : \A f \in {"Id", "HostName", "IPAddress"} :
              ~HasField(UnreachableDevices[i], Tag("", f)) => last.value[i][f] = <<"N", "o", "n", "e">>

\* a device without Status makes get_unreachable_devices raise and return nothing
MissingStatusAborts ==
    last.op = "get_unreachable_devices" /\ Answered /\ SomeDeviceLacks(Tag("", "Status")) =>
        last.raised /\ last.value = PyNone

\* C14 (as the code has it): a device without Status makes
\* get_unreachable_devices raise and return no record at all; a device without
\* a child named key makes get_devices_by(key, value) raise for every value
\* but the empty set, for which every device is skipped and the empty list
\* returned; a device with Status and without Id, HostName or IPAddress is
\* returned by get_unreachable_devices with "None" for the missing field.
C14_MissingFieldAborts ==
    /\ MissingStatusAborts
    /\ last.op = "get_devices_by" /\ Answered /\ SomeDeviceLacks(Tag("", last.args[1])) =>
          IF last.args[2] = PySet({})
          THEN ~last.raised /\ last.value = <<>>
          ELSE last.raised /\ last.value = PyNone
    /\ MissingFieldsAreNone

\* get_devices_by("HostName", {"switch", "router"}) has raised TypeError on an
\* answer whose first device has no HostName and whose second is router2
C14_Witness ==
    /\ last.op = "get_devices_by"
    /\ last.args = <<"HostName", PySet({<<"s", "w", "i", "t", "c", "h">>, <<"r", "o", "u", "t", "e", "r">>})>>
    /\ last.response = Response(200, BodyPartial)
    /\ last.raised
    /\ last.exc.type = "TypeError"
    /\ last.value = PyNone

\* C14 (as stated): as above, but a device without a child named key makes
\* get_devices_by(key, value) raise for every value.
C14_MissingKeyAlwaysAborts ==
    /\ MissingStatusAborts
    /\ last.op = "get_devices_by" /\ Answered /\ SomeDeviceLacks(Tag("", last.args[1])) =>
          last.raised
    /\ MissingFieldsAreNone

====
